---- MODULE Spec2Model ----
(***************************************************************************)
(* MemoryKit landing page: the OBJ parser worker (objParser.worker.js), the *)
(* worker-based brain scene (initBrainScene with placeholder, fetch,       *)
(* worker dispatch and render loop), the scene of brainScene.js that loads *)
(* the mesh with OBJLoader, decimateForPoints, the waitlist form           *)
(* (isValidEmail, initWaitlistForm), the scroll binder                     *)
(* (initScrollEffects) and the page bootstrapper (DOMContentLoaded).  Each *)
(* part has its own specification; the other parts stay as constructed.    *)
(*                                                                         *)
(* Numbers are JavaScript doubles.  The model uses integers for the finite *)
(* values and four values outside the range of every coordinate it uses    *)
(* for +Infinity, -Infinity, NaN and undefined.                            *)
(***************************************************************************)
EXTENDS Integers, Sequences, FiniteSets, TLC

VARIABLES
    \* ---- parser worker (objParser.worker.js, self.onmessage) ----
    payload,        \* e.data of the message being handled
    wpc,            \* position of the handler: "idle", "parsing", "done"
    lineIdx,        \* loop index i over lines (0-based)
    v,              \* flat list of vertex coordinates
    vn,             \* flat list of normal coordinates
    outPositions,   \* flat list of emitted positions
    outNormals,     \* flat list of emitted normals
    posted,         \* sequence of messages posted by the worker
    \* ---- brain scene (initBrainScene) ----
    scanState,      \* [phase, scanY, scanSpeed, maxY]
    uScanY,         \* brainPointsMaterial.uniforms.uScanY.value
    scanLine,       \* [y, visible]
    autoRotate,     \* controls.autoRotate
    pathwaysVisible,\* pathwaysGroup.visible
    brainGroup,     \* points objects that are children of brainGroup
    fetchState,     \* "pending", "fulfilled", "failed"
    worker,         \* [created, alive, inbox, outbox]
    rafPending,     \* number of render callbacks requested and not yet run
    cycleTime,      \* the cycle clock of the pathways, in milliseconds
    DEBUG,          \* the ?debug=1 switch
    console,        \* log sites of the failure paths that have written
    \* ---- decimateForPoints applied to a geometry ----
    decimVariant,   \* which decimateForPoints: of the worker or the loader scene
    geometry,       \* [position, normal]: the attributes of the argument
    stepArg,        \* the step argument
    decimated,      \* the geometry returned, NotCalled before the call
    \* ---- isValidEmail applied to a value ----
    candidate,      \* the value argument, a string
    verdict,        \* "none" before the call, then "accept" or "reject"
    \* ---- waitlist form (initWaitlistForm) ----
    variant,        \* which initWaitlistForm is wired to the form
    emailInput,     \* [value, error]: the value and the mk-input--error class
    messageElement, \* [textContent, error, success, display]
    formRow,        \* style.display of opts.formRow, Absent when it is null
    noteElement,    \* style.display of opts.noteElement, Absent when null
    timers,         \* due times of the pending setTimeout callbacks, in order
    now,            \* the clock of the form, in milliseconds
    submitEvent,    \* the submit event being dispatched, or the last one
    formHist,       \* history of the form (not program state)
    \* ---- scroll effects (initScrollEffects) ----
    throttled,      \* TRUE: the rafId variant, FALSE: handleScroll on each event
    heroRect,       \* [top, height] of hero.getBoundingClientRect(), doubled
    innerHeight,    \* window.innerHeight
    visual,         \* [intensity, pulse]: the style applied and the class
    rafId,          \* the guard: Null or the handle of the requested frame
    frameQueue,     \* number of update callbacks waiting for the next frame
    scrollHist,     \* history of the scroll binder (not program state)
    \* ---- page bootstrapper (DOMContentLoaded handler) ----
    document,       \* what each looked-up element is
    boot,           \* what the handler has done
    \* ---- history (not program state) ----
    hist            \* counters of what has happened so far

parserVars == <<payload, wpc, lineIdx, v, vn, outPositions, outNormals, posted>>
sceneVars  == <<scanState, uScanY, scanLine, autoRotate, pathwaysVisible,
                brainGroup, fetchState, worker, rafPending, cycleTime, DEBUG,
                console>>
decimVars  == <<decimVariant, geometry, stepArg, decimated>>
emailVars  == <<candidate, verdict>>
formVars   == <<variant, emailInput, messageElement, formRow, noteElement,
                timers, now, submitEvent, formHist>>
scrollVars == <<throttled, heroRect, innerHeight, visual, rafId, frameQueue,
                scrollHist>>
bootVars   == <<document, boot>>
pageVars   == <<decimVars, emailVars, formVars, scrollVars, bootVars>>
vars == <<parserVars, sceneVars, pageVars, hist>>

-----------------------------------------------------------------------------
(* JavaScript numbers *)

Infinity    == 2^20
NegInfinity == -Infinity
NaN         == Infinity + 1
Undefined   == Infinity + 2

IsNaN(x)    == x = NaN
IsFinite(x) == x > NegInfinity /\ x < Infinity

\* a + b on doubles
JsAdd(a, b) ==
    IF IsNaN(a) \/ IsNaN(b) THEN NaN
    ELSE IF ~IsFinite(a) /\ ~IsFinite(b) THEN (IF a = b THEN a ELSE NaN)
    ELSE IF ~IsFinite(a) THEN a
    ELSE IF ~IsFinite(b) THEN b
    ELSE a + b

\* a > b and a >= b, a < b on doubles: false as soon as one side is NaN
JsGt(a, b)  == ~IsNaN(a) /\ ~IsNaN(b) /\ a > b
JsGe(a, b)  == ~IsNaN(a) /\ ~IsNaN(b) /\ a >= b
JsLt(a, b)  == ~IsNaN(a) /\ ~IsNaN(b) /\ a < b

\* Math.min / Math.max
JsMin(a, b) == IF IsNaN(a) \/ IsNaN(b) THEN NaN ELSE IF a < b THEN a ELSE b
JsMax(a, b) == IF IsNaN(a) \/ IsNaN(b) THEN NaN ELSE IF a > b THEN a ELSE b

\* array[idx] of a JavaScript array held as a 1-based sequence: undefined
\* outside 0 .. length-1 and for a NaN index
JsAt(arr, idx) ==
    IF IsNaN(idx) \/ idx < 0 \/ idx >= Len(arr) THEN Undefined ELSE arr[idx + 1]

\* element conversion of new Float32Array(list): undefined becomes NaN
ToFloat32(x) == IF x = Undefined THEN NaN ELSE x

Float32Array(list) == [k \in 1..Len(list) |-> ToFloat32(list[k])]

-----------------------------------------------------------------------------
(* Mesh text.  A text is the sequence of its lines; a line is held as the  *)
(* result of trim().split(/\s+/): its first part (key) and the remaining   *)
(* parts.  A part of a face line is held as the result of split("/"): a    *)
(* sequence of segments.  A segment or coordinate is a token.              *)

Num(n) == [t |-> "num", n |-> n]       \* a decimal integer literal
Empty  == [t |-> "empty", n |-> 0]     \* the empty string
Junk   == [t |-> "junk", n |-> 0]      \* text that is not a number

\* parseInt(str, 10) and parseFloat(str)
parseInt(tok)   == IF tok.t = "num" THEN tok.n ELSE NaN
parseFloat(tok) == IF tok.t = "num" THEN tok.n ELSE NaN

\* truthiness of a string
Truthy(tok) == tok.t # "empty"

Line(key, rest) == [key |-> key, rest |-> rest]

\* parts.length of a line (a blank line never gets that far)
PartsLength(line) == 1 + Len(line.rest)

-----------------------------------------------------------------------------
(* objParser.worker.js *)

JsMul3(i) == IF IsNaN(i) THEN NaN ELSE i * 3

\* parseVertexIndex with the relative base taken as the list length
parseVertexIndexFlat(str, vlist) ==
    LET n == parseInt(str)
    IN  IF JsLt(n, 0) THEN JsAdd(Len(vlist), n) ELSE JsAdd(n, -1)

\* parseVertexIndex(str): 1-based, negative = relative to the vertices so far
parseVertexIndex(str, vlist) ==
    LET n == parseInt(str)
    IN  IF JsLt(n, 0) THEN JsAdd(Len(vlist) \div 3, n) ELSE JsAdd(n, -1)

\* parseNormalIndex(str): the same against the normals so far
parseNormalIndex(str, vnlist) ==
    LET n == parseInt(str)
    IN  IF JsLt(n, 0) THEN JsAdd(Len(vnlist) \div 3, n) ELSE JsAdd(n, -1)

\* one face part "a/b/c" -> { vi, ni }
FaceVert(segs, vlist, vnlist) ==
    [vi |-> parseVertexIndex(segs[1], vlist),
     ni |-> IF Len(segs) >= 3 /\ Truthy(segs[3])
            THEN parseNormalIndex(segs[3], vnlist)
            ELSE -1]

\* the loop over parts[1..] building verts
FaceVerts(rest, vlist, vnlist) ==
    [j \in 1..Len(rest) |-> FaceVert(rest[j], vlist, vnlist)]

\* the three pushes of one corner onto outPositions
CornerPosition(c, vlist) ==
    <<JsAt(vlist, JsMul3(c.vi)),
      JsAt(vlist, JsAdd(JsMul3(c.vi), 1)),
      JsAt(vlist, JsAdd(JsMul3(c.vi), 2))>>

\* CornerNormal without the zero vector of a corner that has no normal
CornerNormalNoZero(c, vnlist) ==
    IF JsGe(c.ni, 0)
    THEN <<JsAt(vnlist, JsMul3(c.ni)),
           JsAt(vnlist, JsAdd(JsMul3(c.ni), 1)),
           JsAt(vnlist, JsAdd(JsMul3(c.ni), 2))>>
    ELSE <<>>

\* the three pushes of one corner onto outNormals
CornerNormal(c, vnlist) ==
    IF JsGe(c.ni, 0)
    THEN <<JsAt(vnlist, JsMul3(c.ni)),
           JsAt(vnlist, JsAdd(JsMul3(c.ni), 1)),
           JsAt(vnlist, JsAdd(JsMul3(c.ni), 2))>>
    ELSE <<0, 0, 0>>

\* FanCorners as a strip: [verts[t-1], verts[t], verts[t+1]]
RECURSIVE FanCornersStrip(_, _)
FanCornersStrip(verts, t) ==
    IF t < Len(verts) - 1
    THEN <<verts[t], verts[t + 1], verts[t + 2]>> \o FanCornersStrip(verts, t + 1)
    ELSE <<>>

\* for (t = 1; t < verts.length - 1; t++) over [verts[0], verts[t], verts[t+1]]:
\* the corners in emission order (t is the 0-based loop variable)
RECURSIVE FanCorners(_, _)
FanCorners(verts, t) ==
    IF t < Len(verts) - 1
    THEN <<verts[1], verts[t + 1], verts[t + 2]>> \o FanCorners(verts, t + 1)
    ELSE <<>>

RECURSIVE EmitPositions(_, _)
EmitPositions(corners, vlist) ==
    IF corners = <<>> THEN <<>>
    ELSE CornerPosition(Head(corners), vlist) \o EmitPositions(Tail(corners), vlist)

RECURSIVE EmitNormals(_, _)
EmitNormals(corners, vnlist) ==
    IF corners = <<>> THEN <<>>
    ELSE CornerNormal(Head(corners), vnlist) \o EmitNormals(Tail(corners), vnlist)

\* the parser's four lists
ParseState(vl, vnl, op, on) ==
    [v |-> vl, vn |-> vnl, outPositions |-> op, outNormals |-> on]

EmptyParseState == ParseState(<<>>, <<>>, <<>>, <<>>)

\* one iteration of the loop over lines
ProcessLine(p, line) ==
    IF line.key = "" \/ line.key = "#" THEN p
    ELSE IF line.key = "v" /\ PartsLength(line) >= 4
    THEN [p EXCEPT !.v = p.v \o <<parseFloat(line.rest[1]),
                                  parseFloat(line.rest[2]),
                                  parseFloat(line.rest[3])>>]
    ELSE IF line.key = "vn" /\ PartsLength(line) >= 4
    THEN [p EXCEPT !.vn = p.vn \o <<parseFloat(line.rest[1]),
                                    parseFloat(line.rest[2]),
                                    parseFloat(line.rest[3])>>]
    ELSE IF line.key = "f" /\ PartsLength(line) >= 4
    THEN LET corners == FanCorners(FaceVerts(line.rest, p.v, p.vn), 1)
         IN  [p EXCEPT !.outPositions = p.outPositions \o EmitPositions(corners, p.v),
                       !.outNormals   = p.outNormals \o EmitNormals(corners, p.vn)]
    ELSE p

\* the message a worker posts
ErrorReply(msg) ==
    [error |-> msg,
     positions |-> [present |-> FALSE, data |-> <<>>],
     normals   |-> [present |-> FALSE, data |-> <<>>]]

ResultReply(op, on) ==
    [error |-> "",
     positions |-> [present |-> TRUE, data |-> Float32Array(op)],
     normals   |-> [present |-> TRUE, data |-> Float32Array(on)]]

\* a message payload: a string (held as its lines) or something else
StringPayload(lines) == [isString |-> TRUE, lines |-> lines]
OtherPayload         == [isString |-> FALSE, lines |-> <<>>]

\* the whole handler on one payload
RECURSIVE ParseLines(_, _, _)
ParseLines(p, lines, i) ==
    IF i < Len(lines) THEN ParseLines(ProcessLine(p, lines[i + 1]), lines, i + 1)
    ELSE p

OnMessageReply(data) ==
    IF ~data.isString THEN ErrorReply("Expected string")
    ELSE LET p == ParseLines(EmptyParseState, data.lines, 0)
         IN  ResultReply(p.outPositions, p.outNormals)

-----------------------------------------------------------------------------
(* Inputs of the parser: every text of at most MaxLines lines over the     *)
(* lines below, and one payload that is not a string.                      *)

MaxLines == 3

VertexA == Line("v", <<Num(10), Num(20), Num(30)>>)
VertexB == Line("v", <<Num(-5), Num(40), Num(7)>>)
NormalA == Line("vn", <<Num(0), Num(0), Num(1)>>)
NormalB == Line("vn", <<Num(0), Num(1), Num(0)>>)

Ref1(a)       == <<Num(a)>>                   \* "a"
Ref3(a, c)    == <<Num(a), Empty, Num(c)>>    \* "a//c"

LineChoices ==
    { Line("", <<>>),                                        \* blank
      Line("#", <<>>),                                       \* # comment
      VertexA,
      VertexB,
      Line("v", <<Num(1), Num(2)>>),                         \* v with two numbers
      NormalA,
      NormalB,
      Line("f", <<Ref1(1), Ref1(2), Ref1(-1)>>),             \* triangle
      Line("f", <<Ref3(-1, -1), Ref3(1, 1), Ref3(-1, -2)>>), \* triangle with normals
      Line("f", <<Ref1(1), <<Num(2), Num(1)>>, Ref1(-1), Ref1(-2)>>),  \* quad "1 2/1 -1 -2"
      Line("f", <<Ref1(-1), Ref1(1), Ref1(-2), Ref1(2), Ref1(1)>>),    \* pentagon
      Line("f", <<Ref1(1), Ref1(2)>>),                       \* two references only
      Line("f", <<Ref1(0), Ref1(3), <<Junk>>>>) }            \* "0 3 x"

RECURSIVE TextsOfLength(_)
TextsOfLength(n) ==
    IF n = 0 THEN { <<>> }
    ELSE { Append(t, l) : t \in TextsOfLength(n - 1), l \in LineChoices }

Texts == UNION { TextsOfLength(n) : n \in 0..MaxLines }

Payloads == { StringPayload(t) : t \in Texts } \cup { OtherPayload }

-----------------------------------------------------------------------------
(* Constants and construction of the scene (initBrainScene) *)

SCAN_SPEED == 80
PARTICLE_STEP == 8
PLACEHOLDER_RADIUS == 70
PLACEHOLDER_DETAIL == 2
PLACEHOLDER_DECIMATE == 2
InitialScanY == -120
InitialMaxY == 120
BBoxMargin == 10
MsPerSecond == 1000
cycleDuration == 8

\* DecimateIndices with i += step + 1
RECURSIVE DecimateIndicesWide(_, _, _)
DecimateIndicesWide(i, count, step) ==
    IF i < count THEN <<i>> \o DecimateIndicesWide(i + step + 1, count, step) ELSE <<>>

\* the kept vertex indices of decimateForPoints:
\* for (let i = 0; i < count; i += step)
RECURSIVE DecimateIndices(_, _, _)
DecimateIndices(i, count, step) ==
    IF i < count THEN <<i>> \o DecimateIndices(i + step, count, step) ELSE <<>>

\* decimateForPoints on a flat position list: the triples at the kept indices
RECURSIVE TriplesAt(_, _)
TriplesAt(flat, idx) ==
    IF idx = <<>> THEN <<>>
    ELSE <<flat[3 * Head(idx) + 1], flat[3 * Head(idx) + 2], flat[3 * Head(idx) + 3]>>
            \o TriplesAt(flat, Tail(idx))

decimateForPoints(flat, step) ==
    TriplesAt(flat, DecimateIndices(0, Len(flat) \div 3, step))

\* vertex count of the non-indexed IcosahedronGeometry(radius, detail):
\* 20 faces, each split into (detail + 1)^2 triangles
IcosahedronVertexCount(detail) == 20 * (detail + 1) * (detail + 1) * 3

\* placeholderPoints: the decimated icosahedron (the loop over 0, 2, 4, ...
\* of an even number of vertices keeps half of them)
PlaceholderPoints ==
    [kind  |-> "placeholder",
     count |-> IcosahedronVertexCount(PLACEHOLDER_DETAIL) \div PLACEHOLDER_DECIMATE,
     minY  |-> -PLACEHOLDER_RADIUS,
     maxY  |-> PLACEHOLDER_RADIUS]

\* the worker object as the main thread sees it: inbox holds the messages
\* posted to it, outbox the events it has raised for the main thread
NoWorker == [created |-> FALSE, alive |-> FALSE, inbox |-> <<>>, outbox |-> <<>>]

\* the state initBrainScene leaves behind when it returns
SceneConstructed(debug) ==
    /\ scanState = [phase |-> "scanning", scanY |-> InitialScanY,
                    scanSpeed |-> SCAN_SPEED, maxY |-> InitialMaxY]
    /\ uScanY = InitialScanY
    /\ scanLine = [y |-> 0, visible |-> FALSE]
    /\ autoRotate = FALSE
    /\ pathwaysVisible = FALSE
    /\ brainGroup = { PlaceholderPoints }
    /\ fetchState = "pending"
    /\ worker = NoWorker
    /\ rafPending = 1
    /\ cycleTime = 0
    /\ DEBUG = debug
    /\ console = {}

\* history: how often each thing has happened, whether a failure has occurred
\* (a response that is not ok, a rejection, a worker error, a reply that is an
\* error or lacks a buffer), whether a mesh was swapped in, whether the number
\* of frames rendered is odd, the last action
NoHistory ==
    [completions |-> 0, workersCreated |-> 0, textsSent |-> 0,
     repliesHandled |-> 0, errorsHandled |-> 0, failed |-> FALSE,
     swapped |-> FALSE, frameParity |-> 0, lastAction |-> "init"]

ParserIdle(data) ==
    /\ payload = data
    /\ wpc = "idle"
    /\ lineIdx = 0
    /\ v = <<>>
    /\ vn = <<>>
    /\ outPositions = <<>>
    /\ outNormals = <<>>
    /\ posted = <<>>

-----------------------------------------------------------------------------
(* decimateForPoints on a geometry: the position attribute and, in the     *)
(* worker-based scene, the normal attribute                                *)

NoAttribute       == [present |-> FALSE, data |-> <<>>]
Attribute(flat)   == [present |-> TRUE, data |-> flat]

Geometry(pos, norm) == [position |-> pos, normal |-> norm]

\* the value of `decimated` before the call, and the null that is returned for
\* a geometry without positions
NotCalled    == [called |-> FALSE, isNull |-> FALSE,
                 position |-> NoAttribute, normal |-> NoAttribute]
NullGeometry == [called |-> TRUE, isNull |-> TRUE,
                 position |-> NoAttribute, normal |-> NoAttribute]

\* the decimateForPoints of the worker-based scene (part_004) and the one of
\* the scene that loads the mesh with OBJLoader (brainScene.js)
DecimVariants == {"workerScene", "loaderScene"}

\* decimateForPoints(geometry, step): one loop over i < pos.count pushes the
\* position triple and, in the worker-based scene when there are normals, the
\* normal triple at i; the loader scene's pushes positions only
DecimateGeometry(var, geo, stp) ==
    IF ~geo.position.present THEN NullGeometry
    ELSE LET idx == DecimateIndices(0, Len(geo.position.data) \div 3, stp)
         IN  [called   |-> TRUE,
              isNull   |-> FALSE,
              position |-> Attribute(Float32Array(decimateForPoints(geo.position.data, stp))),
              normal   |-> IF var = "workerScene" /\ geo.normal.present
                           THEN Attribute(Float32Array(TriplesAt(geo.normal.data, idx)))
                           ELSE NoAttribute]

\* inputs: geometries of 0..MaxTriples vertices, with and without normals, and
\* one without positions; vertex i is (i, 100 + i, 200 + i), its normal
\* (-1 - i, -101 - i, -201 - i)
MaxTriples == 7
MaxStep == 4

RECURSIVE PositionsOf(_)
PositionsOf(m) ==
    IF m = 0 THEN <<>>
    ELSE PositionsOf(m - 1) \o <<m - 1, 100 + (m - 1), 200 + (m - 1)>>

RECURSIVE NormalsOf(_)
NormalsOf(m) ==
    IF m = 0 THEN <<>>
    ELSE NormalsOf(m - 1) \o <<-1 - (m - 1), -101 - (m - 1), -201 - (m - 1)>>

Geometries ==
    { Geometry(Attribute(PositionsOf(m)), NoAttribute) : m \in 0..MaxTriples }
        \cup { Geometry(Attribute(PositionsOf(m)), Attribute(NormalsOf(m))) :
                    m \in 0..MaxTriples }
        \cup { Geometry(NoAttribute, NoAttribute) }

Steps == 1..MaxStep

DecimIdle ==
    /\ decimVariant = "workerScene"
    /\ geometry = Geometry(NoAttribute, NoAttribute)
    /\ stepArg = 1
    /\ decimated = NotCalled

-----------------------------------------------------------------------------
(* isValidEmail.  A string is the sequence of its characters.              *)

\* \s of the regular expression and of trim()
IsWhitespace(c) == c \in {" ", "\t"}

\* String.prototype.toLowerCase
LowerChar(c) == IF c = "B" THEN "b" ELSE c
toLowerCase(str) == [i \in 1..Len(str) |-> LowerChar(str[i])]

\* trim() that removes nothing
trimNothing(str) == str

\* String.prototype.trim: whitespace removed from both ends
RECURSIVE trimStart(_)
trimStart(str) ==
    IF str # <<>> /\ IsWhitespace(Head(str)) THEN trimStart(Tail(str)) ELSE str

RECURSIVE trimEnd(_)
trimEnd(str) ==
    IF str # <<>> /\ IsWhitespace(str[Len(str)])
    THEN trimEnd(SubSeq(str, 1, Len(str) - 1))
    ELSE str

trim(str) == trimEnd(trimStart(str))

\* the class [^\s@]
InClass(c) == ~IsWhitespace(c) /\ c # "@"

\* /^[^\s@]+@[^\s@]+\.[^\s@]+$/ as the automaton a regular-expression engine
\* runs: 0 start, 1 in the local part, 2 after "@", 3 in the part before the
\* dot, 4 after the dot, 5 in the part after the dot (accepting)
RegexMove(q, c) ==
    CASE q = 0 -> IF InClass(c) THEN {1} ELSE {}
      [] q = 1 -> IF InClass(c) THEN {1} ELSE IF c = "@" THEN {2} ELSE {}
      [] q = 2 -> IF InClass(c) THEN {3} ELSE {}
      [] q = 3 -> IF c = "." THEN {3, 4} ELSE IF InClass(c) THEN {3} ELSE {}
      [] q = 4 -> IF InClass(c) THEN {5} ELSE {}
      [] q = 5 -> IF InClass(c) THEN {5} ELSE {}

RECURSIVE RegexRun(_, _)
RegexRun(qs, str) ==
    IF str = <<>> THEN qs
    ELSE RegexRun(UNION { RegexMove(q, Head(str)) : q \in qs }, Tail(str))

\* regex.test(str)
RegexTest(str) == 5 \in RegexRun({0}, str)

\* the three initWaitlistForm of the repository: the one that blocks an
\* invalid submit and defers a valid one to the provider's listener, showing
\* the confirmation after a delay; the one that only defers; the local one
Variants == {"blockAndDefer", "deferOnly", "clientOnly"}

\* isValidEmail(value): the local variant's does not trim
isValidEmail(var, value) ==
    IF var = "clientOnly"
    THEN RegexTest(toLowerCase(value))
    ELSE RegexTest(trim(toLowerCase(value)))

\* const email = emailInput.value.trim(); ... isValidEmail(email)
EmailAccepted(var, value) == isValidEmail(var, trim(value))

\* inputs: every string of at most MaxEmailLen characters over the alphabet,
\* the five addresses the specification names and one in capitals
MaxEmailLen == 6

Alphabet == {"a", "@", ".", " "}

RECURSIVE StringsOfLength(_)
StringsOfLength(n) ==
    IF n = 0 THEN { <<>> }
    ELSE { Append(str, c) : str \in StringsOfLength(n - 1), c \in Alphabet }

UserAtExampleCom ==
    <<"u", "s", "e", "r", "@", "e", "x", "a", "m", "p", "l", "e", ".", "c", "o", "m">>
UserAt       == <<"u", "s", "e", "r", "@">>
AtExampleCom == <<"@", "e", "x", "a", "m", "p", "l", "e", ".", "c", "o", "m">>
PlainText    == <<"p", "l", "a", "i", "n", "-", "t", "e", "x", "t">>
EmptyString  == <<>>

NamedAddresses == {UserAtExampleCom, UserAt, AtExampleCom, PlainText, EmptyString}

\* an address with capital letters
UpperCaseAddress == <<"B", "@", "B", ".", "B">>

Candidates ==
    UNION { StringsOfLength(n) : n \in 0..MaxEmailLen }
        \cup NamedAddresses \cup {UpperCaseAddress}

EmailIdle ==
    /\ candidate = EmptyString
    /\ verdict = "none"

-----------------------------------------------------------------------------
(* The waitlist form: elements, texts and the pieces of the submit handler *)

CONFIRM_DELAY == 1500

\* an optional element that is null
Absent == "absent"

\* the ellipsis character of the interim text is written as three dots
ErrorText(var) ==
    IF var = "clientOnly"
    THEN "Add a valid email to join the waitlist."
    ELSE "Please enter a valid email address."

InterimText == "Signing up..."

FinalText(var) ==
    IF var = "clientOnly"
    THEN "You're on the list. We'll reach out when MemoryKit is ready."
    ELSE "You're on the list. We'll only email when there's something meaningful."

\* the reset of the message element that leaves it as it is
ClearMessageNothing(m) == m

\* messageElement.textContent = ""; classList.remove(error, success)
ClearMessage(m) == [m EXCEPT !.textContent = "", !.error = FALSE, !.success = FALSE]

\* if (el) el.style.display = value
SetDisplay(el, value) == IF el = Absent THEN Absent ELSE value

\* event.stopImmediatePropagation() that stops nothing
StopImmediatePropagationNothing(ev) == ev

\* event.preventDefault() and event.stopImmediatePropagation()
PreventDefault(ev) == [ev EXCEPT !.defaultPrevented = TRUE]
StopImmediatePropagation(ev) == [ev EXCEPT !.stopped = TRUE]

\* no submit event yet
NoEvent ==
    [phase |-> "none", value |-> EmptyString, defaultPrevented |-> FALSE,
     stopped |-> FALSE, controllerRan |-> FALSE, externalRan |-> FALSE]

\* a submit event as it is dispatched, the input holding `value`
NewSubmitEvent(value) ==
    [phase |-> "controller", value |-> value, defaultPrevented |-> FALSE,
     stopped |-> FALSE, controllerRan |-> FALSE, externalRan |-> FALSE]

\* history of the form: the submit events handled, whether the last one was
\* valid and when it was handled, whether the timer it started is still
\* pending, the calls of the provider's listener, the last action
NoFormHistory ==
    [submits |-> 0, lastValid |-> FALSE, lastSubmitAt |-> 0,
     lastTimerPending |-> FALSE, externalCalls |-> 0, lastAction |-> "init"]

\* the form after initWaitlistForm has returned
FormConstructed(var, row, note) ==
    /\ variant = var
    /\ emailInput = [value |-> EmptyString, error |-> FALSE]
    /\ messageElement = [textContent |-> "", error |-> FALSE, success |-> FALSE,
                         display |-> ""]
    /\ formRow = row
    /\ noteElement = note
    /\ timers = <<>>
    /\ now = 0
    /\ submitEvent = NoEvent
    /\ formHist = NoFormHistory

FormIdle == FormConstructed("blockAndDefer", Absent, Absent)

-----------------------------------------------------------------------------
(* Scroll effects: the intensity and what update applies.  Lengths are     *)
(* integers; the centre of the hero is held doubled (2 * top + height), so *)
(* that halves stay integers, and a ratio is held as numerator and         *)
(* denominator.                                                            *)

\* let rafId = null
Null == 0

Rat(n, d) == [num |-> n, den |-> d]

Abs(x) == IF x < 0 THEN -x ELSE x
Min(a, b) == IF a < b THEN a ELSE b

\* const vh = window.innerHeight || 1
Vh(ih) == IF ih = 0 THEN 1 ELSE ih

\* twice (rect.top + rect.height / 2)
Center2(rect) == 2 * rect.top + rect.height

\* twice Math.abs(center - vh / 2)
Distance2(rect, vh) == Abs(Center2(rect) - vh)

\* distance / (vh / 2) without the clamp
NormalizedUnclamped(rect, vh) == Rat(Distance2(rect, vh), vh)

\* Math.min(distance / (vh / 2), 1)
Normalized(rect, vh) == Rat(Min(Distance2(rect, vh), vh), vh)

\* 1 - normalized
Intensity(rect, ih) ==
    LET n == Normalized(rect, Vh(ih))
    IN  Rat(n.den - n.num, n.den)

\* intensity > 0.4
AboveThreshold(i) == 10 * i.num > 4 * i.den

\* what update leaves on the visual element: the intensity its scale and
\* opacity are derived from, and the mk-brain-pulse class
Update(rect, ih) ==
    [intensity |-> Intensity(rect, ih),
     pulse     |-> AboveThreshold(Intensity(rect, ih))]

\* the guard that always lets a frame be requested
GuardOpenAlways(id) == TRUE

\* rafId == null
GuardOpen(id) == id = Null

\* requestAnimationFrame(update): the handle returned, never 0
RequestAnimationFrame(queue) == queue + 1

\* history of the binder: the scroll events not yet followed by a
\* recomputation, how many the last frame answered and how many
\* recomputations it ran, the rectangle and the window height the last
\* recomputation read, the last action
ScrollHistoryAt(rect, ih) ==
    [pendingScrolls |-> 0, answered |-> 0, updatesInFrame |-> 0,
     seenRect |-> rect, seenHeight |-> ih, lastAction |-> "init"]

Rect(top, height) == [top |-> top, height |-> height]

\* the binder after initScrollEffects has returned: update() has run once
ScrollConstructed(thr, rect, ih) ==
    /\ throttled = thr
    /\ heroRect = rect
    /\ innerHeight = ih
    /\ visual = Update(rect, ih)
    /\ rafId = Null
    /\ frameQueue = 0
    /\ scrollHist = ScrollHistoryAt(rect, ih)

ScrollIdle == ScrollConstructed(TRUE, Rect(0, 0), 0)

-----------------------------------------------------------------------------
(* The page bootstrapper: the document and the lookups of the handler      *)

\* what getElementById / querySelector find: for each element whether it is
\* missing, of the type the handler expects, or of another type
Documents ==
    [canvas  : {Absent, "canvas", "other"},
     form    : {Absent, "form", "other"},
     message : {Absent, "element"},
     email   : {Absent, "input", "other"},
     row     : {Absent, "element"},
     note    : {Absent, "element"},
     hero    : {Absent, "element"},
     visual  : {Absent, "html", "svg"}]

EmptyDocument ==
    [canvas |-> Absent, form |-> Absent, message |-> Absent, email |-> Absent,
     row |-> Absent, note |-> Absent, hero |-> Absent, visual |-> Absent]

\* form.querySelector(".mk-waitlist-row") without the optional chaining: a
\* TypeError when form is null
FormRowLookupUnchained(doc) ==
    [threw |-> doc.form = Absent,
     value |-> IF doc.form = Absent THEN Absent ELSE doc.row]

\* form?.querySelector(".mk-waitlist-row") ?? null
FormRowLookup(doc) ==
    [threw |-> FALSE,
     value |-> IF doc.form = Absent THEN Absent ELSE doc.row]

\* canvas instanceof HTMLCanvasElement
SceneElementsOk(doc) == doc.canvas = "canvas"

\* form instanceof HTMLFormElement && messageElement &&
\* emailInput instanceof HTMLInputElement
WaitlistElementsOk(doc) ==
    doc.form = "form" /\ doc.message # Absent /\ doc.email = "input"

\* the negation of !hero || !(visual instanceof HTMLElement)
ScrollElementsOk(doc) == doc.hero # Absent /\ doc.visual = "html"

\* before DOMContentLoaded
NotLoaded ==
    [phase |-> "loading", sceneFrame |-> FALSE, scene |-> FALSE,
     waitlist |-> FALSE, formRow |-> Absent, noteElement |-> Absent,
     scroll |-> FALSE, threw |-> FALSE]

BootIdle ==
    /\ document = EmptyDocument
    /\ boot = NotLoaded

\* every part of the page other than the one a specification is about
PageIdle == DecimIdle /\ EmailIdle /\ FormIdle /\ ScrollIdle /\ BootIdle

SceneIdle ==
    /\ SceneConstructed(FALSE)
    /\ ParserIdle(StringPayload(<<>>))
    /\ hist = NoHistory

-----------------------------------------------------------------------------
(* self.onmessage, one step per loop iteration *)

\* OnMessageBegin without the return after the error reply
OnMessageBeginNoReturn ==
    /\ wpc = "idle"
    /\ posted' = IF ~payload.isString
                 THEN Append(posted, ErrorReply("Expected string"))
                 ELSE posted
    /\ wpc' = "parsing"
    /\ lineIdx' = 0
    /\ v' = <<>>
    /\ vn' = <<>>
    /\ outPositions' = <<>>
    /\ outNormals' = <<>>
    /\ UNCHANGED <<payload, sceneVars, pageVars, hist>>

\* lines 7-16: the type check and the four empty lists
OnMessageBegin ==
    /\ wpc = "idle"
    /\ IF ~payload.isString
       THEN /\ posted' = Append(posted, ErrorReply("Expected string"))
            /\ wpc' = "done"
       ELSE /\ posted' = posted
            /\ wpc' = "parsing"
    /\ lineIdx' = 0
    /\ v' = <<>>
    /\ vn' = <<>>
    /\ outPositions' = <<>>
    /\ outNormals' = <<>>
    /\ UNCHANGED <<payload, sceneVars, pageVars, hist>>

\* lines 27-61: one iteration of the loop over lines
OnMessageLine ==
    /\ wpc = "parsing"
    /\ lineIdx < Len(payload.lines)
    /\ LET p == ProcessLine(ParseState(v, vn, outPositions, outNormals),
                            payload.lines[lineIdx + 1])
       IN  /\ v' = p.v
           /\ vn' = p.vn
           /\ outPositions' = p.outPositions
           /\ outNormals' = p.outNormals
    /\ lineIdx' = lineIdx + 1
    /\ UNCHANGED <<payload, wpc, posted, sceneVars, pageVars, hist>>

\* lines 63-68: the typed arrays and the reply
OnMessagePost ==
    /\ wpc = "parsing"
    /\ lineIdx >= Len(payload.lines)
    /\ posted' = Append(posted, ResultReply(outPositions, outNormals))
    /\ wpc' = "done"
    /\ UNCHANGED <<payload, lineIdx, v, vn, outPositions, outNormals, sceneVars, pageVars, hist>>

ParserInit ==
    /\ \E data \in Payloads : ParserIdle(data)
    /\ SceneConstructed(FALSE)
    /\ hist = NoHistory
    /\ PageIdle

ParserNext == OnMessageBegin \/ OnMessageLine \/ OnMessagePost

ParserSpec == ParserInit /\ [][ParserNext]_vars

-----------------------------------------------------------------------------
(* Properties of the parser, checked under ParserSpec *)

\* the line handled by the last OnMessageLine step
LastLine == payload.lines[lineIdx]

\* the coordinate triples declared by the `key` lines among the first n lines
\* of the text, read off the text itself
Declared(key, n) ==
    LET decl == SelectSeq(SubSeq(payload.lines, 1, n),
                          LAMBDA l : l.key = key /\ Len(l.rest) >= 3)
    IN  [d \in 1..Len(decl) |->
            <<decl[d].rest[1].n, decl[d].rest[2].n, decl[d].rest[3].n>>]

\* the reference (1-based position in the face line) of the m-th corner emitted
\* for a face: corners 0, t, t+1 of triangle t
RefOfCorner(m) ==
    LET t == ((m - 1) \div 3) + 1
        c == (m - 1) % 3
    IN  IF c = 0 THEN 1 ELSE t + c

Triple(list, m) == SubSeq(list, 3 * (m - 1) + 1, 3 * m)

\* C7: every message gets exactly one reply: an error descriptor without
\* buffers for a payload that is not a string, both buffers and no error for a
\* string; nothing is posted before the handler ends.
C7_OneTypedReply ==
    /\ wpc # "done" => posted = <<>>
    /\ wpc = "done" =>
        /\ Len(posted) = 1
        /\ IF payload.isString
           THEN /\ posted[1].error = ""
                /\ posted[1].positions.present
                /\ posted[1].normals.present
           ELSE /\ posted[1].error # ""
                /\ ~posted[1].positions.present
                /\ ~posted[1].normals.present

C7_Witness ==
    /\ wpc = "done"
    /\ ~payload.isString
    /\ posted = <<ErrorReply("Expected string")>>

\* number of face lines of the text
FaceCount == Cardinality({ i \in 1..Len(payload.lines) : payload.lines[i].key = "f" })

OnlyTriangularFaces ==
    \A i \in 1..Len(payload.lines) :
        payload.lines[i].key = "f" => Len(payload.lines[i].rest) = 3

\* what one face line with k references adds to outPositions
C8_FaceStep ==
    (wpc = "parsing" /\ lineIdx' = lineIdx + 1 /\ payload.lines[lineIdx + 1].key = "f") =>
        LET line  == payload.lines[lineIdx + 1]
            k     == Len(line.rest)
            added == SubSeq(outPositions', Len(outPositions) + 1, Len(outPositions'))
        IN  IF k >= 3
            THEN /\ Len(added) = 3 * (3 * (k - 2))
                 /\ \A t \in 1..(k - 2) : \A c \in 0..2 :
                        Triple(added, 3 * (t - 1) + c + 1) =
                            CornerPosition(
                                FaceVert(line.rest[IF c = 0 THEN 1 ELSE t + c], v, vn), v)
            ELSE added = <<>>

\* C8: a face line with k >= 3 references adds 3*(k-2) position triples, those
\* of corners 0,t,t+1 for t = 1..k-2; a face line with fewer adds nothing; a
\* text with triangular faces only yields 3 x faceCount position triples and as
\* many normal triples.
C8_FanTriangulation ==
    /\ [][C8_FaceStep]_vars
    /\ [](wpc = "done" /\ payload.isString /\ OnlyTriangularFaces =>
            /\ Len(posted[1].positions.data) = 3 * (3 * FaceCount)
            /\ Len(posted[1].normals.data) = 3 * (3 * FaceCount))

C8_Witness ==
    /\ wpc = "parsing"
    /\ lineIdx > 0
    /\ LastLine.key = "f"
    /\ Len(LastLine.rest) = 5
    /\ Len(outPositions) = 27
    /\ Triple(outPositions, 7) = <<-5, 40, 7>>
    /\ Triple(outPositions, 8) = <<-5, 40, 7>>
    /\ Triple(outPositions, 9) = <<10, 20, 30>>

\* C9: at every point of the parse and in the posted result, positions and
\* normals have the same length, a multiple of 3.
C9_EqualLengths ==
    /\ Len(outPositions) = Len(outNormals)
    /\ Len(outPositions) % 3 = 0
    /\ \A r \in 1..Len(posted) :
        /\ Len(posted[r].positions.data) = Len(posted[r].normals.data)
        /\ Len(posted[r].positions.data) % 3 = 0

C9_Witness ==
    /\ wpc = "done"
    /\ payload.isString
    /\ \E i \in 1..Len(payload.lines) :
        payload.lines[i] = Line("f", <<Ref1(1), Ref1(2), Ref1(-1)>>)
    /\ Len(posted[1].positions.data) >= 9
    /\ Len(posted[1].normals.data) = Len(posted[1].positions.data)

\* what a face line emits for each reference that names a declared vertex or
\* normal
C10_FaceStep ==
    (wpc = "parsing" /\ lineIdx' = lineIdx + 1 /\ payload.lines[lineIdx + 1].key = "f"
        /\ Len(payload.lines[lineIdx + 1].rest) >= 3) =>
        LET line   == payload.lines[lineIdx + 1]
            k      == Len(line.rest)
            verts  == Declared("v", lineIdx)
            norms  == Declared("vn", lineIdx)
            addedP == SubSeq(outPositions', Len(outPositions) + 1, Len(outPositions'))
            addedN == SubSeq(outNormals', Len(outNormals) + 1, Len(outNormals'))
        IN  \A m \in 1..(3 * (k - 2)) :
                LET segs == line.rest[RefOfCorner(m)]
                    n    == segs[1]
                IN  /\ (n.t = "num" /\ n.n < 0 /\ Len(verts) + n.n >= 0) =>
                        Triple(addedP, m) = verts[Len(verts) + n.n + 1]
                    /\ (n.t = "num" /\ n.n > 0 /\ n.n <= Len(verts)) =>
                        Triple(addedP, m) = verts[n.n]
                    /\ (Len(segs) >= 3 /\ segs[3].t = "num" /\ segs[3].n < 0
                            /\ Len(norms) + segs[3].n >= 0) =>
                        Triple(addedN, m) = norms[Len(norms) + segs[3].n + 1]
                    /\ (Len(segs) >= 3 /\ segs[3].t = "num" /\ segs[3].n > 0
                            /\ segs[3].n <= Len(norms)) =>
                        Triple(addedN, m) = norms[segs[3].n]

\* C10: a negative reference n names the vertex at 0-based position
\* (vertices declared so far) + n, a positive one the vertex at n-1; normal
\* references likewise against the normals declared so far.
C10_IndexResolution == [][C10_FaceStep]_vars

\* v A, v B, then "f 1 2 -1": -1 is B, the last vertex declared so far
C10_Witness ==
    /\ wpc = "parsing"
    /\ lineIdx = 3
    /\ payload.lines[1] = VertexA
    /\ payload.lines[2] = VertexB
    /\ LastLine = Line("f", <<Ref1(1), Ref1(2), Ref1(-1)>>)
    /\ outPositions = <<10, 20, 30, -5, 40, 7, -5, 40, 7>>

-----------------------------------------------------------------------------
(* The scene after initBrainScene has returned: the fetch chain, the       *)
(* worker, the two worker handlers and the render loop.                    *)

\* the mesh texts the fetch may deliver
VertexC == Line("v", <<Num(0), Num(-60), Num(0)>>)

BrainText ==
    <<VertexA, VertexB, VertexC, NormalA,
      Line("f", <<Ref1(1), Ref1(2), Ref1(3)>>),
      Line("f", <<Ref3(-1, 1), Ref3(-2, 1), Ref3(-3, -1)>>)>>

\* a text without faces, such as an HTML page served with status 200
NoFaceText == <<Line("#", <<>>), Line("o", <<>>)>>

\* a face that names vertices the text does not declare
BadRefText == <<VertexA, Line("f", <<Ref1(1), Ref1(2), Ref1(3)>>)>>

SceneTexts == { BrainText, NoFaceText, BadRefText }

\* frame intervals now - lastTime, in milliseconds
FrameIntervals == { 250, 500 }

\* replies other than the one objParser.worker.js computes for a string, which
\* worker.onmessage guards against: an error descriptor, a reply without normals
OtherReplies ==
    { ErrorReply("Expected string"),
      [error |-> "",
       positions |-> [present |-> TRUE, data |-> <<10, 20, 30>>],
       normals   |-> [present |-> FALSE, data |-> <<>>]] }

Event(type, data) == [type |-> type, data |-> data]

\* record in the history that action `name` ran, with the changes given
Did(name, changes) ==
    [f \in DOMAIN hist |->
        IF f = "lastAction" THEN name
        ELSE IF f \in DOMAIN changes THEN changes[f]
        ELSE hist[f]]

\* console.warn behind `if (DEBUG)`
WarnIfDebug(site) == IF DEBUG THEN console \cup {site} ELSE console

\* worker.terminate() without effect
TerminateNothing(w) == w

\* worker.terminate(): the worker stops and nothing it queued is delivered
Terminate(w) == [w EXCEPT !.alive = FALSE, !.inbox = <<>>, !.outbox = <<>>]

\* the guard of worker.onmessage always passing
ReplyUsableAlways(data) == TRUE

\* the negation of `error || !positions || !normals`
ReplyUsable(data) ==
    ~(data.error # "" \/ ~data.positions.present \/ ~data.normals.present)

\* Box3.setFromBufferAttribute: makeEmpty, then expandByPoint for every vertex
RECURSIVE ExpandY(_, _, _)
ExpandY(box, flat, i) ==
    IF i < Len(flat) \div 3
    THEN ExpandY([min |-> JsMin(box.min, flat[3 * i + 2]),
                  max |-> JsMax(box.max, flat[3 * i + 2])], flat, i + 1)
    ELSE box

\* mergedGeo.computeBoundingBox(): the y range of the positions
BoundingBoxY(flat) == ExpandY([min |-> Infinity, max |-> NegInfinity], flat, 0)

\* the scan state after a mesh load that also restarts the phase
ScanStateOnLoadRestart(s, bbox) ==
    [s EXCEPT !.phase = "scanning",
              !.scanY = JsAdd(bbox.min, -BBoxMargin),
              !.maxY  = JsAdd(bbox.max, BBoxMargin)]

\* scanState.scanY = bbox.min.y - 10; scanState.maxY = bbox.max.y + 10
ScanStateOnLoad(s, bbox) ==
    [s EXCEPT !.scanY = JsAdd(bbox.min, -BBoxMargin),
              !.maxY  = JsAdd(bbox.max, BBoxMargin)]

\* brainPoints: the decimated mesh
BrainPoints(flat, bbox) ==
    [kind  |-> "brain",
     count |-> Len(decimateForPoints(flat, PARTICLE_STEP)) \div 3,
     minY  |-> bbox.min,
     maxY  |-> bbox.max]

\* the swap that adds the mesh and leaves the placeholder in the group
SwapPointsKeep(group, points) == group \cup {points}

\* brainGroup.remove(placeholderPoints); brainGroup.add(brainPoints)
SwapPoints(group, points) == (group \ {PlaceholderPoints}) \cup {points}

\* a frame that requests no successor
ScheduleFrameNothing(pending) == pending

\* requestAnimationFrame(render) at the end of render: one more callback is
\* pending
ScheduleFrame(pending) == pending + 1

\* brainPointsMaterial = null: there is no uniform yet (the scene of
\* brainScene.js before its mesh has loaded)
NoMaterial == Undefined

\* a frame that leaves the uniform as it is
WriteUniformNothing(u, value) == u

\* if (brainPointsMaterial) brainPointsMaterial.uniforms.uScanY.value = value
WriteUniform(u, value) == IF u = NoMaterial THEN u ELSE value

\* the completion test with >= for >
ScanCompleteGe(y, maxY) == JsGe(y, maxY)

\* scanState.scanY > scanState.maxY
ScanComplete(y, maxY) == JsGt(y, maxY)

\* .then((res) => ...): the response arrives
FetchResponse(ok) ==
    /\ fetchState = "pending"
    /\ IF ok
       THEN /\ fetchState' = "reading"
            /\ console' = console
            /\ hist' = Did("fetchResponse", <<>>)
       ELSE /\ fetchState' = "failed"
            /\ console' = WarnIfDebug("OBJ fetch error")
            /\ hist' = Did("fetchResponse", [failed |-> TRUE])
    /\ UNCHANGED <<scanState, uScanY, scanLine, autoRotate, pathwaysVisible,
                   brainGroup, worker, rafPending, cycleTime, DEBUG, parserVars, pageVars>>

\* .catch((err) => ...): the fetch or the reading of the body rejects
FetchReject ==
    /\ fetchState \in {"pending", "reading"}
    /\ fetchState' = "failed"
    /\ console' = WarnIfDebug("OBJ fetch error")
    /\ hist' = Did("fetchReject", [failed |-> TRUE])
    /\ UNCHANGED <<scanState, uScanY, scanLine, autoRotate, pathwaysVisible,
                   brainGroup, worker, rafPending, cycleTime, DEBUG, parserVars, pageVars>>

\* .then((text) => ...): the worker is created and sent the text
FetchText(text) ==
    /\ fetchState = "reading"
    /\ fetchState' = "done"
    /\ worker' = [created |-> TRUE, alive |-> TRUE,
                  inbox |-> Append(worker.inbox, StringPayload(text)),
                  outbox |-> <<>>]
    /\ hist' = Did("fetchText", [workersCreated |-> hist.workersCreated + 1,
                                 textsSent |-> hist.textsSent + 1])
    /\ UNCHANGED <<scanState, uScanY, scanLine, autoRotate, pathwaysVisible,
                   brainGroup, rafPending, cycleTime, DEBUG, console, parserVars, pageVars>>

\* the worker handles the message and posts the parser's reply
WorkerRun ==
    /\ worker.alive
    /\ worker.inbox # <<>>
    /\ worker' = [worker EXCEPT
                    !.inbox = Tail(@),
                    !.outbox = Append(@, Event("message",
                                               OnMessageReply(Head(worker.inbox))))]
    /\ hist' = Did("workerRun", <<>>)
    /\ UNCHANGED <<scanState, uScanY, scanLine, autoRotate, pathwaysVisible,
                   brainGroup, fetchState, rafPending, cycleTime, DEBUG, console, parserVars, pageVars>>

\* the worker posts one of the other replies
WorkerReplyOther(reply) ==
    /\ worker.alive
    /\ worker.inbox # <<>>
    /\ worker' = [worker EXCEPT
                    !.inbox = Tail(@),
                    !.outbox = Append(@, Event("message", reply))]
    /\ hist' = Did("workerReplyOther", [failed |-> TRUE])
    /\ UNCHANGED <<scanState, uScanY, scanLine, autoRotate, pathwaysVisible,
                   brainGroup, fetchState, rafPending, cycleTime, DEBUG, console, parserVars, pageVars>>

\* the worker script fails to load or throws: an error event, no reply
WorkerCrash ==
    /\ worker.alive
    /\ worker.inbox # <<>>
    /\ worker' = [worker EXCEPT
                    !.inbox = Tail(@),
                    !.outbox = Append(@, Event("error", ErrorReply("")))]
    /\ hist' = Did("workerCrash", [failed |-> TRUE])
    /\ UNCHANGED <<scanState, uScanY, scanLine, autoRotate, pathwaysVisible,
                   brainGroup, fetchState, rafPending, cycleTime, DEBUG, console, parserVars, pageVars>>

\* worker.onmessage
WorkerOnMessage ==
    /\ worker.outbox # <<>>
    /\ Head(worker.outbox).type = "message"
    /\ LET data == Head(worker.outbox).data
       IN  /\ worker' = Terminate([worker EXCEPT !.outbox = Tail(@)])
           /\ IF ~ReplyUsable(data)
              THEN /\ console' = console \cup {"worker error or empty result"}
                   /\ hist' = Did("workerOnMessage",
                                  [repliesHandled |-> hist.repliesHandled + 1])
                   /\ UNCHANGED <<scanState, uScanY, brainGroup>>
              ELSE LET bbox == BoundingBoxY(data.positions.data)
                       next == ScanStateOnLoad(scanState, bbox)
                   IN  /\ scanState' = next
                       /\ uScanY' = next.scanY
                       /\ brainGroup' = SwapPoints(brainGroup,
                                                   BrainPoints(data.positions.data, bbox))
                       /\ console' = console
                       /\ hist' = Did("workerOnMessage",
                                      [repliesHandled |-> hist.repliesHandled + 1,
                                       swapped |-> TRUE])
    /\ UNCHANGED <<scanLine, autoRotate, pathwaysVisible, fetchState, rafPending,
                   cycleTime, DEBUG, parserVars, pageVars>>

\* worker.onerror
WorkerOnError ==
    /\ worker.outbox # <<>>
    /\ Head(worker.outbox).type = "error"
    /\ worker' = Terminate([worker EXCEPT !.outbox = Tail(@)])
    /\ console' = WarnIfDebug("worker error, keeping placeholder")
    /\ hist' = Did("workerOnError", [errorsHandled |-> hist.errorsHandled + 1])
    /\ UNCHANGED <<scanState, uScanY, scanLine, autoRotate, pathwaysVisible,
                   brainGroup, fetchState, rafPending, cycleTime, DEBUG, parserVars, pageVars>>

\* render(now), with ms = now - lastTime
RenderFrame(ms) ==
    /\ rafPending > 0
    /\ IF scanState.phase = "scanning"
       THEN LET y    == JsAdd(scanState.scanY, (scanState.scanSpeed * ms) \div MsPerSecond)
                done == ScanComplete(y, scanState.maxY)
            IN  /\ scanState' = [scanState EXCEPT
                                    !.scanY = y,
                                    !.phase = IF done THEN "complete" ELSE @]
                /\ scanLine' = [y |-> y, visible |-> ~done]
                /\ uScanY' = WriteUniform(uScanY, y)
                /\ autoRotate' = (done \/ autoRotate)
                /\ pathwaysVisible' = (done \/ pathwaysVisible)
                /\ hist' = Did("render",
                               [completions |-> hist.completions + (IF done THEN 1 ELSE 0),
                                frameParity |-> 1 - hist.frameParity])
       ELSE /\ hist' = Did("render", [frameParity |-> 1 - hist.frameParity])
            /\ UNCHANGED <<scanState, scanLine, uScanY, autoRotate, pathwaysVisible>>
    /\ cycleTime' = IF scanState'.phase = "complete"
                    THEN (cycleTime + ms) % (cycleDuration * MsPerSecond)
                    ELSE cycleTime
    /\ rafPending' = ScheduleFrame(rafPending - 1)
    /\ UNCHANGED <<brainGroup, fetchState, worker, DEBUG, console, parserVars, pageVars>>

Render == \E ms \in FrameIntervals : RenderFrame(ms)

Init ==
    /\ \E debug \in BOOLEAN : SceneConstructed(debug)
    /\ ParserIdle(StringPayload(<<>>))
    /\ hist = NoHistory
    /\ PageIdle

Next ==
    \/ \E ok \in BOOLEAN : FetchResponse(ok)
    \/ FetchReject
    \/ \E text \in SceneTexts : FetchText(text)
    \/ WorkerRun
    \/ \E reply \in OtherReplies : WorkerReplyOther(reply)
    \/ WorkerCrash
    \/ WorkerOnMessage
    \/ WorkerOnError
    \/ Render

Spec == Init /\ [][Next]_vars

\* requestAnimationFrame runs every requested callback
FairSpec == Spec /\ WF_vars(Render)

-----------------------------------------------------------------------------
(* Properties of the scene, checked under Spec and FairSpec *)

PlaceholderDisplayed == PlaceholderPoints \in brainGroup

MeshDisplayed == \E p \in brainGroup : p.kind = "brain"

\* y range of the mesh in the group (NaN while there is none)
MeshMinY == IF MeshDisplayed THEN (CHOOSE p \in brainGroup : p.kind = "brain").minY ELSE NaN
MeshMaxY == IF MeshDisplayed THEN (CHOOSE p \in brainGroup : p.kind = "brain").maxY ELSE NaN

\* a mesh with at least one point and finite bounds is in the group
ValidMeshDisplayed ==
    \E p \in brainGroup :
        p.kind = "brain" /\ p.count > 0 /\ IsFinite(p.minY) /\ IsFinite(p.maxY)

Completing == scanState.phase = "scanning" /\ scanState'.phase = "complete"

\* C1: over any sequence of frames and fetch/worker callbacks the phase goes
\* from "scanning" to "complete" once and never back: no step leaves
\* "complete", and the completion side effects have run in exactly one frame
\* once the phase is "complete" (in none before), the frame that made the
\* transition, which turns auto-rotate on and shows the connector group.
C1_OneWayOnce ==
    /\ [][scanState.phase = "complete" => scanState'.phase = "complete"]_vars
    /\ [][hist'.completions # hist.completions =>
            Completing /\ autoRotate' /\ pathwaysVisible']_vars
    /\ [](hist.completions = IF scanState.phase = "complete" THEN 1 ELSE 0)

\* completed on the placeholder, the mesh arrived afterwards, frames go on
C1_Witness ==
    /\ scanState.phase = "complete"
    /\ hist.completions = 1
    /\ hist.swapped
    /\ hist.lastAction = "render"
    /\ autoRotate
    /\ pathwaysVisible

C2_CompletesAboveMaxY ==
    [][Completing =>
        /\ hist'.lastAction = "render"
        /\ JsGt(scanState'.scanY, scanState'.maxY)
        /\ scanState'.maxY = (IF \E p \in brainGroup' : p.kind = "brain"
                              THEN JsAdd((CHOOSE p \in brainGroup' : p.kind = "brain").maxY,
                                         BBoxMargin)
                              ELSE InitialMaxY)]_vars

\* the scan completed over the placeholder after the fetch had failed
CompletedOnPlaceholder ==
    /\ scanState.phase = "complete"
    /\ PlaceholderDisplayed
    /\ fetchState = "failed"
    /\ JsGt(scanState.scanY, InitialMaxY)

\* C3: once a valid mesh has been swapped in, the uniform uScanY eventually
\* exceeds the mesh's upper bound (every point of the mesh is revealed).
C3_EventuallyRevealed ==
    ValidMeshDisplayed ~> (ValidMeshDisplayed /\ JsGt(uScanY, MeshMaxY))

\* the steps that handle a failure
FailureHandling ==
    /\ hist'.failed
    /\ hist'.lastAction \in {"fetchResponse", "fetchReject", "workerOnMessage",
                             "workerOnError"}

\* C4: after a failed fetch, a worker error or a reply that is an error or
\* lacks a buffer, the group holds the placeholder in every later state, and
\* the handling of the failure changes neither the scan state nor the scene.
C4_FailureKeepsPlaceholder ==
    /\ [](hist.failed => brainGroup = {PlaceholderPoints})
    /\ [][FailureHandling =>
            UNCHANGED <<scanState, uScanY, scanLine, autoRotate, pathwaysVisible,
                        brainGroup>>]_vars

\* a reply that is an error or lacks a buffer was handled, frames go on
C4_Witness ==
    /\ hist.failed
    /\ hist.repliesHandled = 1
    /\ hist.lastAction = "render"
    /\ brainGroup = {PlaceholderPoints}
    /\ "worker error or empty result" \in console

C6_OneShotWorker ==
    /\ hist.workersCreated <= 1
    /\ hist.textsSent = hist.workersCreated
    /\ worker.created <=> hist.workersCreated = 1
    /\ hist.repliesHandled + hist.errorsHandled <= 1
    /\ hist.repliesHandled + hist.errorsHandled = 1 =>
        /\ ~worker.alive
        /\ worker.inbox = <<>>
        /\ worker.outbox = <<>>
    /\ worker.alive => Len(worker.inbox) + Len(worker.outbox) = 1

C6_Witness ==
    /\ hist.workersCreated = 1
    /\ hist.errorsHandled = 1
    /\ ~worker.alive
    /\ fetchState = "done"

-----------------------------------------------------------------------------
(* decimateForPoints as a function: a geometry and a step are chosen, the  *)
(* function is applied once.                                               *)

Decimate ==
    /\ ~decimated.called
    /\ decimated' = DecimateGeometry(decimVariant, geometry, stepArg)
    /\ UNCHANGED <<decimVariant, geometry, stepArg, emailVars, formVars, scrollVars, bootVars,
                   parserVars, sceneVars, hist>>

DecimateInit ==
    /\ decimVariant \in DecimVariants
    /\ geometry \in Geometries
    /\ stepArg \in Steps
    /\ decimated = NotCalled
    /\ EmailIdle /\ FormIdle /\ ScrollIdle /\ BootIdle
    /\ SceneIdle

DecimateNext == Decimate

DecimateSpec == DecimateInit /\ [][DecimateNext]_vars

\* ceil(m / n) for n >= 1
CeilDiv(m, n) == (m + n - 1) \div n

\* the attribute `out` holds exactly the triples of `src` at 0, n, 2n, ...
KeepsEveryNth(out, src, n) ==
    LET m == Len(src) \div 3
    IN  /\ Len(out) = 3 * CeilDiv(m, n)
        /\ \A k \in 0..(CeilDiv(m, n) - 1) : Triple(out, k + 1) = Triple(src, k * n + 1)

\* C11 as claimed: decimateForPoints with step N >= 1 on M position triples
\* returns ceil(M / N) triples, those at source indices 0, N, 2N, ... in
\* order; index 0 is kept when M >= 1; when normals are present the same
\* indices of the normal buffer are kept.
C11_Original ==
    (decimated.called /\ geometry.position.present) =>
        /\ ~decimated.isNull
        /\ decimated.position.present
        /\ KeepsEveryNth(decimated.position.data, geometry.position.data, stepArg)
        /\ Len(geometry.position.data) >= 3 =>
                Triple(decimated.position.data, 1) = Triple(geometry.position.data, 1)
        /\ geometry.normal.present =>
                /\ decimated.normal.present
                /\ KeepsEveryNth(decimated.normal.data, geometry.normal.data, stepArg)

\* C11 amended: the positions as claimed, for both functions; the normals at
\* the same indices are kept by the worker-based scene's function when the
\* source has normals, while the loader scene's function returns a geometry
\* without normals.
C11_Decimation ==
    (decimated.called /\ geometry.position.present) =>
        /\ ~decimated.isNull
        /\ decimated.position.present
        /\ KeepsEveryNth(decimated.position.data, geometry.position.data, stepArg)
        /\ Len(geometry.position.data) >= 3 =>
                Triple(decimated.position.data, 1) = Triple(geometry.position.data, 1)
        /\ decimated.normal.present =
                (decimVariant = "workerScene" /\ geometry.normal.present)
        /\ decimated.normal.present =>
                KeepsEveryNth(decimated.normal.data, geometry.normal.data, stepArg)

\* 7 vertices with normals, step 3: the vertices 0, 3 and 6 are kept
C11_Witness ==
    /\ decimated.called
    /\ decimVariant = "workerScene"
    /\ stepArg = 3
    /\ Len(geometry.position.data) = 21
    /\ decimated.position.data = <<0, 100, 200, 3, 103, 203, 6, 106, 206>>
    /\ decimated.normal.data = <<-1, -101, -201, -4, -104, -204, -7, -107, -207>>

-----------------------------------------------------------------------------
(* isValidEmail as a function: a variant and a string are chosen, the      *)
(* validation is applied once.  The isValidEmail of waitlistForm.js trims  *)
(* its argument itself and is applied to the string as it is; the one of   *)
(* the local variant does not and is applied, as in its only caller, to    *)
(* the trimmed value of the input.                                         *)

Validate ==
    /\ verdict = "none"
    /\ verdict' = IF (IF variant = "clientOnly"
                      THEN EmailAccepted(variant, candidate)
                      ELSE isValidEmail(variant, candidate))
                  THEN "accept" ELSE "reject"
    /\ UNCHANGED <<candidate, decimVars, formVars, scrollVars, bootVars,
                   parserVars, sceneVars, hist>>

EmailInit ==
    /\ candidate \in Candidates
    /\ verdict = "none"
    /\ \E var \in Variants : FormConstructed(var, Absent, Absent)
    /\ DecimIdle /\ ScrollIdle /\ BootIdle
    /\ SceneIdle

EmailNext == Validate

EmailSpec == EmailInit /\ [][EmailNext]_vars

\* str without its leading and trailing whitespace, read off the positions of
\* its characters that are not whitespace
Core(str) ==
    LET solid == { i \in 1..Len(str) : ~IsWhitespace(str[i]) }
    IN  IF solid = {} THEN <<>>
        ELSE SubSeq(str, CHOOSE i \in solid : \A j \in solid : i <= j,
                         CHOOSE i \in solid : \A j \in solid : i >= j)

\* local@domain.tld: one "@", no whitespace, a non-empty local part, and after
\* the "@" a "." with at least one character on each side
HasEmailShape(str) ==
    /\ Cardinality({ i \in 1..Len(str) : str[i] = "@" }) = 1
    /\ \A i \in 1..Len(str) : ~IsWhitespace(str[i])
    /\ LET at == CHOOSE i \in 1..Len(str) : str[i] = "@"
       IN  /\ at > 1
           /\ \E dot \in (at + 2)..(Len(str) - 1) : str[dot] = "."

-----------------------------------------------------------------------------
(* The waitlist form after initWaitlistForm has returned: submit events,   *)
(* the controller's listener, the provider's listener, the clock and the   *)
(* confirmation timers.  A submit event is dispatched synchronously: no    *)
(* timer fires and no time passes between its listeners.                   *)

MaxSubmits == 3
MaxTime == 2000

\* what the input may hold when the form is submitted
FormEmails ==
    { <<"a", "@", "a", ".", "a">>,
      <<" ", "a", "@", "a", ".", "a", " ">>,
      <<"a", "@">>,
      EmptyString }

\* how far the clock moves between two events, in milliseconds
ClockSteps == {500}

\* everything that is not the form
notForm == <<decimVars, emailVars, scrollVars, bootVars, parserVars, sceneVars, hist>>

Dispatching == submitEvent.phase \in {"controller", "external"}

FormDid(name, changes) ==
    [f \in DOMAIN formHist |->
        IF f = "lastAction" THEN name
        ELSE IF f \in DOMAIN changes THEN changes[f]
        ELSE formHist[f]]

\* the user submits the form with `value` in the input
SubmitEvent(value) ==
    /\ ~Dispatching
    /\ formHist.submits < MaxSubmits
    /\ emailInput' = [emailInput EXCEPT !.value = value]
    /\ submitEvent' = NewSubmitEvent(value)
    /\ formHist' = FormDid("submitEvent", <<>>)
    /\ UNCHANGED <<variant, messageElement, formRow, noteElement, timers, now,
                   notForm>>

\* where the event goes after the controller's listener
AfterController(ev, hasExternal) ==
    [ev EXCEPT !.controllerRan = TRUE,
               !.phase = IF ev.stopped \/ ~hasExternal THEN "done" ELSE "external"]

\* waitlistForm.js:16-48, registered for the capture phase
OnSubmitBlockAndDefer ==
    /\ variant = "blockAndDefer"
    /\ submitEvent.phase = "controller"
    /\ LET email   == trim(emailInput.value)
           cleared == ClearMessage(messageElement)
       IN  IF ~isValidEmail(variant, email)
           THEN /\ submitEvent' = AfterController(
                        StopImmediatePropagation(PreventDefault(submitEvent)), TRUE)
                /\ emailInput' = [emailInput EXCEPT !.error = TRUE]
                /\ messageElement' = [cleared EXCEPT !.textContent = ErrorText(variant),
                                                     !.error = TRUE,
                                                     !.display = "block"]
                /\ formRow' = SetDisplay(formRow, "")
                /\ noteElement' = SetDisplay(noteElement, "")
                /\ timers' = timers
                /\ formHist' = FormDid("onSubmit",
                                       [submits |-> formHist.submits + 1,
                                        lastValid |-> FALSE, lastSubmitAt |-> now,
                                        lastTimerPending |-> FALSE])
           ELSE /\ submitEvent' = AfterController(submitEvent, TRUE)
                /\ emailInput' = [emailInput EXCEPT !.error = FALSE]
                /\ messageElement' = [cleared EXCEPT !.textContent = InterimText,
                                                     !.success = TRUE,
                                                     !.display = "block"]
                /\ formRow' = SetDisplay(formRow, "none")
                /\ noteElement' = SetDisplay(noteElement, "none")
                /\ timers' = Append(timers, now + CONFIRM_DELAY)
                /\ formHist' = FormDid("onSubmit",
                                       [submits |-> formHist.submits + 1,
                                        lastValid |-> TRUE, lastSubmitAt |-> now,
                                        lastTimerPending |-> TRUE])
    /\ UNCHANGED <<variant, now,
                   notForm>>

\* waitlistForm.js:67-90; the provider's listener is taken to run after it
OnSubmitDeferOnly ==
    /\ variant = "deferOnly"
    /\ submitEvent.phase = "controller"
    /\ LET email   == trim(emailInput.value)
           cleared == ClearMessage(messageElement)
       IN  IF ~isValidEmail(variant, email)
           THEN /\ submitEvent' = AfterController(PreventDefault(submitEvent), TRUE)
                /\ emailInput' = [emailInput EXCEPT !.error = TRUE]
                /\ messageElement' = [cleared EXCEPT !.textContent = ErrorText(variant),
                                                     !.error = TRUE,
                                                     !.display = "block"]
                /\ formRow' = SetDisplay(formRow, "")
                /\ noteElement' = SetDisplay(noteElement, "")
                /\ formHist' = FormDid("onSubmit",
                                       [submits |-> formHist.submits + 1,
                                        lastValid |-> FALSE, lastSubmitAt |-> now,
                                        lastTimerPending |-> FALSE])
           ELSE /\ submitEvent' = AfterController(submitEvent, TRUE)
                /\ emailInput' = [emailInput EXCEPT !.error = FALSE]
                /\ messageElement' = [cleared EXCEPT !.textContent = InterimText,
                                                     !.success = TRUE,
                                                     !.display = "block"]
                /\ formRow' = SetDisplay(formRow, "none")
                /\ noteElement' = SetDisplay(noteElement, "none")
                /\ formHist' = FormDid("onSubmit",
                                       [submits |-> formHist.submits + 1,
                                        lastValid |-> TRUE, lastSubmitAt |-> now,
                                        lastTimerPending |-> FALSE])
    /\ UNCHANGED <<variant, timers, now,
                   notForm>>

\* part_004:6-30; there is no provider
OnSubmitClientOnly ==
    /\ variant = "clientOnly"
    /\ submitEvent.phase = "controller"
    /\ LET email   == trim(emailInput.value)
           cleared == ClearMessage(messageElement)
       IN  /\ submitEvent' = AfterController(PreventDefault(submitEvent), FALSE)
           /\ IF ~isValidEmail(variant, email)
              THEN /\ emailInput' = [emailInput EXCEPT !.error = TRUE]
                   /\ messageElement' = [cleared EXCEPT !.textContent = ErrorText(variant),
                                                        !.error = TRUE]
                   /\ formHist' = FormDid("onSubmit",
                                          [submits |-> formHist.submits + 1,
                                           lastValid |-> FALSE, lastSubmitAt |-> now,
                                           lastTimerPending |-> FALSE])
              ELSE /\ emailInput' = [value |-> EmptyString, error |-> FALSE]
                   /\ messageElement' = [cleared EXCEPT !.textContent = FinalText(variant),
                                                        !.success = TRUE]
                   /\ formHist' = FormDid("onSubmit",
                                          [submits |-> formHist.submits + 1,
                                           lastValid |-> TRUE, lastSubmitAt |-> now,
                                           lastTimerPending |-> FALSE])
    /\ UNCHANGED <<variant, formRow, noteElement, timers, now,
                   notForm>>

\* the provider's submit listener, reached when propagation was not stopped
ExternalListener ==
    /\ submitEvent.phase = "external"
    /\ submitEvent' = [submitEvent EXCEPT !.externalRan = TRUE, !.phase = "done"]
    /\ formHist' = FormDid("external", [externalCalls |-> formHist.externalCalls + 1])
    /\ UNCHANGED <<variant, emailInput, messageElement, formRow, noteElement,
                   timers, now,
                   notForm>>

\* time passes
Tick ==
    /\ ~Dispatching
    /\ now < MaxTime
    /\ \E ms \in ClockSteps : now' = now + ms
    /\ formHist' = FormDid("tick", <<>>)
    /\ UNCHANGED <<variant, emailInput, messageElement, formRow, noteElement,
                   timers, submitEvent,
                   notForm>>

\* waitlistForm.js:40-47: the callback of the oldest pending timer, once due
TimerFire ==
    /\ ~Dispatching
    /\ timers # <<>>
    /\ Head(timers) <= now
    /\ messageElement' = [messageElement EXCEPT !.textContent = FinalText(variant),
                                                !.error = FALSE,
                                                !.success = TRUE,
                                                !.display = "block"]
    /\ formRow' = SetDisplay(formRow, "none")
    /\ noteElement' = SetDisplay(noteElement, "none")
    /\ timers' = Tail(timers)
    /\ formHist' = FormDid("timer",
                           [lastTimerPending |-> formHist.lastTimerPending /\ Len(timers) > 1])
    /\ UNCHANGED <<variant, emailInput, now, submitEvent,
                   notForm>>

FormInit ==
    /\ \E var \in Variants :
        \E row, note \in (IF var = "clientOnly" THEN {Absent} ELSE {Absent, ""}) :
            FormConstructed(var, row, note)
    /\ DecimIdle /\ EmailIdle /\ ScrollIdle /\ BootIdle
    /\ SceneIdle

FormNext ==
    \/ \E value \in FormEmails : SubmitEvent(value)
    \/ OnSubmitBlockAndDefer
    \/ OnSubmitDeferOnly
    \/ OnSubmitClientOnly
    \/ ExternalListener
    \/ Tick
    \/ TimerFire

FormSpec == FormInit /\ [][FormNext]_vars

-----------------------------------------------------------------------------
(* Properties of the waitlist form, checked under FormSpec *)

\* the step in which the controller's listener handles the event
ControllerStep == submitEvent.phase = "controller" /\ submitEvent'.controllerRan

\* the input holds, trimmed, an address of the shape local@domain.tld
InputValid == HasEmailShape(Core(emailInput.value))

C12_Step ==
    (ControllerStep /\ ~InputValid) =>
        /\ submitEvent'.defaultPrevented
        /\ emailInput'.error
        /\ messageElement'.textContent =
                (IF variant = "clientOnly"
                 THEN "Add a valid email to join the waitlist."
                 ELSE "Please enter a valid email address.")
        /\ messageElement'.error
        /\ ~messageElement'.success
        /\ formRow' \in {Absent, ""}
        /\ noteElement' \in {Absent, ""}
        /\ timers' = timers

\* C12: the handler of a submit event whose trimmed email is invalid prevents
\* the default action, leaves the input with the error marker and the message
\* element with the fixed error text, the error class and no success class,
\* leaves the row and the note visible, and starts no timer.
C12_InvalidSubmit == [][C12_Step]_vars

\* an invalid submit handled after a valid one, whose timer is still pending
\* and whose success class and hidden row it has undone
C12_Witness ==
    /\ variant = "blockAndDefer"
    /\ formHist.lastAction = "onSubmit"
    /\ formHist.submits = 2
    /\ ~formHist.lastValid
    /\ submitEvent.defaultPrevented
    /\ emailInput.error
    /\ messageElement.error
    /\ ~messageElement.success
    /\ formRow = ""
    /\ Len(timers) = 1

\* C13: in the block-and-defer variant, once a submit event with a valid email
\* has been handled and while no later one is dispatched, the input has no
\* error marker, the row and the note are hidden, the message element has the
\* success class and shows the interim text or the confirmation text; it
\* shows the confirmation text once the timer that submit started has fired,
\* and never earlier than 1500 ms after that submit.
C13_Original ==
    (variant = "blockAndDefer" /\ formHist.lastValid
            /\ submitEvent.phase # "controller") =>
        /\ ~emailInput.error
        /\ formRow \in {Absent, "none"}
        /\ noteElement \in {Absent, "none"}
        /\ messageElement.success
        /\ messageElement.textContent \in
                {"Signing up...",
                 "You're on the list. We'll only email when there's something meaningful."}
        /\ ~formHist.lastTimerPending =>
                messageElement.textContent # "Signing up..."
        /\ messageElement.textContent # "Signing up..." =>
                now >= formHist.lastSubmitAt + 1500

\* What holds of the confirmation: it is written only by a timer callback,
\* and a timer's callback runs no earlier than 1500 ms after the valid submit
\* that started it, which need not be the last submit.
C13_ConfirmationByTimer ==
    [][(variant = "blockAndDefer"
            /\ messageElement'.textContent = FinalText(variant)
            /\ messageElement.textContent # FinalText(variant)) =>
        /\ formHist'.lastAction = "timer"
        /\ timers' = Tail(timers)
        /\ now >= Head(timers)]_vars

\* C14: in the block-and-defer variant the provider's listener runs only
\* after the controller's, and for a dispatched event it has run if and only
\* if the trimmed email is valid: an invalid event is default-prevented and
\* its propagation stopped, a valid one is neither.
C14_BlockAndDefer ==
    variant = "blockAndDefer" =>
        /\ submitEvent.phase = "external" =>
                submitEvent.controllerRan /\ ~submitEvent.externalRan
        /\ submitEvent.externalRan => submitEvent.controllerRan
        /\ submitEvent.phase = "done" =>
                IF HasEmailShape(Core(submitEvent.value))
                THEN /\ submitEvent.externalRan
                     /\ ~submitEvent.defaultPrevented
                     /\ ~submitEvent.stopped
                ELSE /\ ~submitEvent.externalRan
                     /\ submitEvent.defaultPrevented
                     /\ submitEvent.stopped

\* a valid event has reached the provider's listener, then an invalid one
\* has been stopped by the controller
C14_Witness ==
    /\ variant = "blockAndDefer"
    /\ formHist.submits = 2
    /\ formHist.externalCalls = 1
    /\ submitEvent.phase = "done"
    /\ submitEvent.value = <<"a", "@">>
    /\ submitEvent.stopped
    /\ ~submitEvent.externalRan

-----------------------------------------------------------------------------
(* The scroll binder after initScrollEffects has returned: scroll events,  *)
(* resizes of the window and animation frames.                             *)

MaxTop == 5
MaxScrolls == 3

HeroTops == -1..MaxTop
HeroHeights == {0, 3}
InnerHeights == {0, 5, 10}

\* everything that is not the scroll binder
notScroll == <<decimVars, emailVars, formVars, bootVars, parserVars, sceneVars, hist>>

ScrollDid(name, changes) ==
    [f \in DOMAIN scrollHist |->
        IF f = "lastAction" THEN name
        ELSE IF f \in DOMAIN changes THEN changes[f]
        ELSE scrollHist[f]]

\* part_003:22-24: a scroll event moves the hero to `top`; onScroll requests a
\* frame unless one is requested already
OnScroll(top) ==
    /\ throttled
    /\ scrollHist.pendingScrolls < MaxScrolls
    /\ heroRect' = [heroRect EXCEPT !.top = top]
    /\ IF GuardOpen(rafId)
       THEN /\ rafId' = RequestAnimationFrame(frameQueue)
            /\ frameQueue' = frameQueue + 1
       ELSE UNCHANGED <<rafId, frameQueue>>
    /\ scrollHist' = ScrollDid("scroll",
                               [pendingScrolls |-> scrollHist.pendingScrolls + 1])
    /\ UNCHANGED <<throttled, innerHeight, visual, notScroll>>

\* scrollEffects.js:7-23: handleScroll is the listener itself
HandleScroll(top) ==
    /\ ~throttled
    /\ heroRect' = [heroRect EXCEPT !.top = top]
    /\ visual' = Update(heroRect', innerHeight)
    /\ scrollHist' = ScrollDid("handleScroll",
                               [seenRect |-> heroRect', seenHeight |-> innerHeight])
    /\ UNCHANGED <<throttled, innerHeight, rafId, frameQueue, notScroll>>

\* the window is resized; the binder has no listener for it
Resize(ih) ==
    /\ ih # innerHeight
    /\ innerHeight' = ih
    /\ scrollHist' = ScrollDid("resize", <<>>)
    /\ UNCHANGED <<throttled, heroRect, visual, rafId, frameQueue, notScroll>>

\* part_003:8-20: the frame runs every update callback that was requested
AnimationFrame ==
    /\ frameQueue > 0
    /\ visual' = Update(heroRect, innerHeight)
    /\ rafId' = Null
    /\ frameQueue' = 0
    /\ scrollHist' = ScrollDid("frame",
                               [pendingScrolls |-> 0,
                                answered |-> scrollHist.pendingScrolls,
                                updatesInFrame |-> frameQueue,
                                seenRect |-> heroRect, seenHeight |-> innerHeight])
    /\ UNCHANGED <<throttled, heroRect, innerHeight, notScroll>>

ScrollInit ==
    /\ \E thr \in BOOLEAN, top \in HeroTops, height \in HeroHeights, ih \in InnerHeights :
            ScrollConstructed(thr, Rect(top, height), ih)
    /\ DecimIdle /\ EmailIdle /\ FormIdle /\ BootIdle
    /\ SceneIdle

ScrollNext ==
    \/ \E top \in HeroTops : OnScroll(top)
    \/ \E top \in HeroTops : HandleScroll(top)
    \/ \E ih \in InnerHeights : Resize(ih)
    \/ AnimationFrame

ScrollSpec == ScrollInit /\ [][ScrollNext]_vars

\* requestAnimationFrame runs every requested callback
FairScrollSpec == ScrollSpec /\ WF_vars(AnimationFrame)

-----------------------------------------------------------------------------
(* Properties of the scroll binder *)

\* C16: in the throttled binder at most one update callback is pending, and
\* one is pending exactly while the guard is set; a frame with a pending
\* callback runs exactly one recomputation, whatever the number of scroll
\* events since the last one, and clears the guard; a scroll event leaves
\* one callback pending; every scroll event is followed by a recomputation.
C16_OnePendingUpdate ==
    /\ [](throttled => /\ frameQueue <= 1
                       /\ frameQueue = 1 <=> rafId # Null
                       /\ scrollHist.pendingScrolls > 0 <=> frameQueue = 1)
    /\ [][(throttled /\ scrollHist'.lastAction = "frame") =>
            /\ scrollHist'.updatesInFrame = 1
            /\ scrollHist.pendingScrolls >= 1
            /\ rafId' = Null
            /\ frameQueue' = 0]_vars
    /\ [][(throttled /\ scrollHist'.lastAction = "scroll") => frameQueue' = 1]_vars
    /\ (throttled /\ scrollHist.pendingScrolls > 0) ~> (scrollHist.pendingScrolls = 0)

\* three scroll events were answered by one recomputation in one frame, and
\* a later scroll event has requested a new frame
C16_Witness ==
    /\ throttled
    /\ scrollHist.answered = 3
    /\ scrollHist.updatesInFrame = 1
    /\ scrollHist.lastAction = "scroll"
    /\ frameQueue = 1
    /\ rafId # Null

\* the facts of C17 about the intensity applied for a hero of top `top` and
\* height `height` in a viewport of height `h`
IntensityFacts(top, height, h, vis) ==
    /\ vis.intensity.den > 0
    /\ 0 <= vis.intensity.num
    /\ vis.intensity.num <= vis.intensity.den
    /\ vis.intensity.num = vis.intensity.den <=> 2 * top + height = h
    /\ Abs(2 * top + height - h) >= h => vis.intensity.num = 0
    /\ vis.pulse <=> 10 * vis.intensity.num > 4 * vis.intensity.den

\* C17 as claimed: for every hero rectangle and viewport height the intensity
\* is in [0,1], is 1 exactly when the centres coincide, is 0 when they are at
\* least half the viewport height apart, and the pulse class is on exactly
\* when it exceeds 0.4.
C17_Original ==
    IntensityFacts(scrollHist.seenRect.top, scrollHist.seenRect.height,
                   scrollHist.seenHeight, visual)

\* C17 amended: the same for every viewport height greater than 0; for a
\* window height of 0 the intensity is computed against a viewport of height
\* 1 (window.innerHeight || 1).
C17_Intensity ==
    IntensityFacts(scrollHist.seenRect.top, scrollHist.seenRect.height,
                   IF scrollHist.seenHeight > 0 THEN scrollHist.seenHeight ELSE 1,
                   visual)

\* a frame has recomputed for a hero centred in a viewport of height 5
C17_Witness ==
    /\ scrollHist.lastAction = "frame"
    /\ innerHeight = 5
    /\ heroRect = Rect(1, 3)
    /\ visual.intensity = Rat(5, 5)
    /\ visual.pulse

-----------------------------------------------------------------------------
(* The page bootstrapper: the DOMContentLoaded handler over a document,    *)
(* and the frame it requests for the scene.                                *)

\* part_000:8-28.  A TypeError at the lookup of the row would end the handler
\* there, after the frame for the scene has been requested.
DOMContentLoaded ==
    /\ boot.phase = "loading"
    /\ LET row == FormRowLookup(document)
       IN  boot' = IF row.threw
                   THEN [boot EXCEPT !.phase = "loaded",
                                     !.sceneFrame = SceneElementsOk(document),
                                     !.threw = TRUE]
                   ELSE [phase       |-> "loaded",
                         sceneFrame  |-> SceneElementsOk(document),
                         scene       |-> FALSE,
                         waitlist    |-> WaitlistElementsOk(document),
                         formRow     |-> IF WaitlistElementsOk(document)
                                         THEN row.value ELSE Absent,
                         noteElement |-> IF WaitlistElementsOk(document)
                                         THEN document.note ELSE Absent,
                         scroll      |-> ScrollElementsOk(document),
                         threw       |-> FALSE]
    /\ UNCHANGED <<document, decimVars, emailVars, formVars, scrollVars,
                   parserVars, sceneVars, hist>>

\* part_000:13: requestAnimationFrame(() => initBrainScene(canvas))
SceneFrame ==
    /\ boot.sceneFrame
    /\ boot' = [boot EXCEPT !.sceneFrame = FALSE, !.scene = TRUE]
    /\ UNCHANGED <<document, decimVars, emailVars, formVars, scrollVars,
                   parserVars, sceneVars, hist>>

BootInit ==
    /\ document \in Documents
    /\ boot = NotLoaded
    /\ DecimIdle /\ EmailIdle /\ FormIdle /\ ScrollIdle
    /\ SceneIdle

BootNext == DOMContentLoaded \/ SceneFrame

BootSpec == BootInit /\ [][BootNext]_vars

\* C18: once the DOMContentLoaded handler has run, no error was raised and
\* each feature is initialised (the scene: initialised or its frame requested)
\* if and only if its own elements exist with the expected type: a canvas; a
\* form, a message element and an input; a hero and an HTML visual element.
\* Before the handler has run nothing is initialised.
C18_Bootstrap ==
    IF boot.phase = "loaded"
    THEN /\ ~boot.threw
         /\ (boot.sceneFrame \/ boot.scene) <=> document.canvas = "canvas"
         /\ ~(boot.sceneFrame /\ boot.scene)
         /\ boot.waitlist <=>
                (document.form = "form" /\ document.message # Absent
                    /\ document.email = "input")
         /\ boot.scroll <=> (document.hero # Absent /\ document.visual = "html")
    ELSE ~boot.sceneFrame /\ ~boot.scene /\ ~boot.waitlist /\ ~boot.scroll

\* no canvas and no form: scroll effects are initialised all the same
C18_Witness ==
    /\ boot.phase = "loaded"
    /\ document.canvas = Absent
    /\ document.form = Absent
    /\ document.email = "input"
    /\ ~boot.scene
    /\ ~boot.waitlist
    /\ boot.scroll

-----------------------------------------------------------------------------
(* Further properties of the scene, stated under Spec *)

\* C19: in every reachable state the brain group holds a points cloud, and
\* every points cloud it holds has at least one point.
C19_Original ==
    /\ brainGroup # {}
    /\ \A p \in brainGroup : p.count > 0

-----------------------------------------------------------------------------
(* The scene of brainScene.js, which loads the mesh with OBJLoader: no      *)
(* placeholder, the points material is created by the load callback, and   *)
(* the load-error callback adds a fallback mesh.  It uses the variables of *)
(* the scene; fetchState is the state of objLoader.load.                   *)

\* the state this initBrainScene leaves behind when it returns
LoaderConstructed ==
    /\ scanState = [phase |-> "scanning", scanY |-> InitialScanY,
                    scanSpeed |-> SCAN_SPEED, maxY |-> InitialMaxY]
    /\ uScanY = NoMaterial
    /\ scanLine = [y |-> 0, visible |-> FALSE]
    /\ autoRotate = FALSE
    /\ pathwaysVisible = FALSE
    /\ brainGroup = {}
    /\ fetchState = "pending"
    /\ worker = NoWorker
    /\ rafPending = 1
    /\ cycleTime = 0
    /\ DEBUG = FALSE
    /\ console = {}

\* the positions of the mesh children of the loaded object, merged; the empty
\* list is an object without mesh children
LoaderMeshes == { <<>>, <<10, 20, 30, -5, 40, 7, 0, -60, 0>> }

\* the x-ray shell and the fallback icosahedron of the load-error callback
XRayMesh(bbox) == [kind |-> "xray", count |-> 0, minY |-> bbox.min, maxY |-> bbox.max]
FallbackRadius == 80
FallbackMesh == [kind |-> "fallback", count |-> 0,
                 minY |-> -FallbackRadius, maxY |-> FallbackRadius]

\* objLoader.load, onLoad
LoaderOnLoad(flat) ==
    /\ fetchState = "pending"
    /\ fetchState' = "done"
    /\ IF flat = <<>>
       THEN /\ hist' = Did("loaderOnLoad", <<>>)
            /\ UNCHANGED <<scanState, uScanY, brainGroup>>
       ELSE LET bbox == BoundingBoxY(flat)
                next == ScanStateOnLoad(scanState, bbox)
            IN  /\ scanState' = next
                /\ uScanY' = next.scanY
                /\ brainGroup' = brainGroup \cup {BrainPoints(flat, bbox), XRayMesh(bbox)}
                /\ hist' = Did("loaderOnLoad", [swapped |-> TRUE])
    /\ UNCHANGED <<scanLine, autoRotate, pathwaysVisible, worker, rafPending,
                   cycleTime, DEBUG, console, parserVars, pageVars>>

\* objLoader.load, onError: the fallback mesh, and the phase set to "complete"
LoaderOnError ==
    /\ fetchState = "pending"
    /\ fetchState' = "failed"
    /\ brainGroup' = brainGroup \cup {FallbackMesh}
    /\ scanState' = [scanState EXCEPT !.phase = "complete"]
    /\ hist' = Did("loaderOnError", [failed |-> TRUE])
    /\ UNCHANGED <<uScanY, scanLine, autoRotate, pathwaysVisible, worker, rafPending,
                   cycleTime, DEBUG, console, parserVars, pageVars>>

\* render(now) of brainScene.js: the uniform is written only when the material
\* exists
LoaderRenderFrame(ms) ==
    /\ rafPending > 0
    /\ IF scanState.phase = "scanning"
       THEN LET y    == JsAdd(scanState.scanY, (scanState.scanSpeed * ms) \div MsPerSecond)
                done == ScanComplete(y, scanState.maxY)
            IN  /\ scanState' = [scanState EXCEPT
                                    !.scanY = y,
                                    !.phase = IF done THEN "complete" ELSE @]
                /\ scanLine' = [y |-> y, visible |-> ~done]
                /\ uScanY' = WriteUniform(uScanY, y)
                /\ autoRotate' = (done \/ autoRotate)
                /\ pathwaysVisible' = (done \/ pathwaysVisible)
                /\ hist' = Did("render",
                               [completions |-> hist.completions + (IF done THEN 1 ELSE 0),
                                frameParity |-> 1 - hist.frameParity])
       ELSE /\ hist' = Did("render", [frameParity |-> 1 - hist.frameParity])
            /\ UNCHANGED <<scanState, scanLine, uScanY, autoRotate, pathwaysVisible>>
    /\ cycleTime' = IF scanState'.phase = "complete"
                    THEN (cycleTime + ms) % (cycleDuration * MsPerSecond)
                    ELSE cycleTime
    /\ rafPending' = ScheduleFrame(rafPending - 1)
    /\ UNCHANGED <<brainGroup, fetchState, worker, DEBUG, console, parserVars, pageVars>>

LoaderRender == \E ms \in FrameIntervals : LoaderRenderFrame(ms)

LoaderInit ==
    /\ LoaderConstructed
    /\ ParserIdle(StringPayload(<<>>))
    /\ hist = NoHistory
    /\ PageIdle

LoaderNext ==
    \/ \E flat \in LoaderMeshes : LoaderOnLoad(flat)
    \/ LoaderOnError
    \/ LoaderRender

LoaderSpec == LoaderInit /\ [][LoaderNext]_vars

\* C21: in every reachable state of a scene, worker-based or loading with
\* OBJLoader, the phase is "complete" if and only if the connector-line group
\* is visible and auto-rotation is enabled.
C21_Original ==
    (scanState.phase = "complete") <=> (pathwaysVisible /\ autoRotate)

-----------------------------------------------------------------------------
(* Properties of the form under interleavings of submit events and timers, *)
(* checked under FormSpec                                                  *)

\* the last submit event has been handled by the controller's listener
LastSubmitHandled == formHist.submits > 0 /\ submitEvent.phase # "controller"

\* C22: under any interleaving of submit events and pending confirmation
\* timers, the message element shows the confirmation text only if the most
\* recent submit event carried a valid email; after an invalid submit the
\* error text, the input's error marker and the visible row and note persist
\* until the next submit event.
C22_Original ==
    LastSubmitHandled =>
        /\ messageElement.textContent \in
                {"You're on the list. We'll only email when there's something meaningful.",
                 "You're on the list. We'll reach out when MemoryKit is ready."}
            => formHist.lastValid
        /\ ~formHist.lastValid =>
                /\ messageElement.textContent \in
                        {"Please enter a valid email address.",
                         "Add a valid email to join the waitlist."}
                /\ messageElement.error
                /\ emailInput.error
                /\ formRow \in {Absent, ""}
                /\ noteElement \in {Absent, ""}

\* C27: in every state reachable by submit events and confirmation-timer
\* firings, in each of the three forms, the message element never carries
\* both the error class and the success class, and the email input carries the
\* error marker only if the most recent submit event handled was invalid.
C27_ExclusiveClasses ==
    /\ ~(messageElement.error /\ messageElement.success)
    /\ emailInput.error => (formHist.submits > 0 /\ ~formHist.lastValid)

\* a valid submit, then an invalid one, then the timer of the first fires:
\* the callback has replaced the error class by the success class while the
\* input keeps its error marker
C27_Witness ==
    /\ variant = "blockAndDefer"
    /\ formHist.lastAction = "timer"
    /\ formHist.submits = 2
    /\ ~formHist.lastValid
    /\ emailInput.error
    /\ messageElement.success
    /\ ~messageElement.error

-----------------------------------------------------------------------------
(* Properties of the worker-based scene's points cloud, render loop and    *)
(* uniform, checked under Spec and FairSpec                                *)

\* C23: in every state a render frame can observe, the brain group holds
\* exactly one points cloud, the placeholder or the loaded mesh, never both
\* and never neither; once the mesh is in the group the placeholder is never
\* added again.
C23_AtomicSwap ==
    /\ [](Cardinality(brainGroup) = 1)
    /\ [](PlaceholderDisplayed # MeshDisplayed)
    /\ [][MeshDisplayed => (MeshDisplayed' /\ ~PlaceholderDisplayed')]_vars
    /\ [][brainGroup' # brainGroup =>
            (PlaceholderDisplayed /\ MeshDisplayed'
                /\ hist'.lastAction = "workerOnMessage")]_vars

\* frames are rendered after the swap, the mesh alone in the group
C23_Witness ==
    /\ hist.swapped
    /\ hist.lastAction = "render"
    /\ ValidMeshDisplayed
    /\ ~PlaceholderDisplayed
    /\ Cardinality(brainGroup) = 1

\* C24: from the first requestAnimationFrame of initBrainScene on, exactly
\* one render callback is pending in every state between frames: a frame
\* consumes the pending callback and requests one, no fetch or worker callback
\* requests or cancels one; with every requested frame dispatched, render runs
\* infinitely often.
C24_RenderLoop ==
    /\ [](rafPending = 1)
    /\ [][hist'.lastAction # "render" => rafPending' = rafPending]_vars
    /\ []<><<Render>>_vars

\* frames go on after the fetch has failed and the scan has completed
C24_Witness ==
    /\ rafPending = 1
    /\ fetchState = "failed"
    /\ hist.lastAction = "render"
    /\ scanState.phase = "complete"
    /\ cycleTime = 7500

\* C25: in the worker-based scene, after every render frame and after every
\* run of worker.onmessage, in both phases and before and after the swap, the
\* uniform uScanY of the points material holds the value of scanState.scanY.
C25_UniformFollowsScan == uScanY = scanState.scanY

\* a frame of the scan after the swap has moved both off the mesh's start
C25_Witness ==
    /\ hist.swapped
    /\ hist.lastAction = "render"
    /\ scanState.phase = "scanning"
    /\ ValidMeshDisplayed
    /\ scanState.scanY = -50
    /\ uScanY = -50

-----------------------------------------------------------------------------
(* Safety of the parser's face references, checked under ParserSpec *)

\* what a face line adds to outPositions: triples of vertices declared by the
\* lines before it, no coordinate undefined or NaN
C26_FaceStep ==
    (wpc = "parsing" /\ lineIdx' = lineIdx + 1 /\ payload.lines[lineIdx + 1].key = "f") =>
        LET verts == Declared("v", lineIdx)
            added == SubSeq(outPositions', Len(outPositions) + 1, Len(outPositions'))
        IN  /\ \A m \in 1..(Len(added) \div 3) :
                \E d \in 1..Len(verts) : Triple(added, m) = verts[d]
            /\ \A k \in 1..Len(added) : added[k] \notin {Undefined, NaN}

\* C26: for any mesh text, every position triple the parser emits is the
\* triple of a vertex declared by a `v` line before the face line that
\* references it; whatever the reference (positive, negative, zero, beyond the
\* vertices declared so far), no emitted or posted coordinate is undefined or
\* NaN.
C26_Original ==
    /\ [][C26_FaceStep]_vars
    /\ [](\A r \in 1..Len(posted) :
            \A k \in 1..Len(posted[r].positions.data) :
                posted[r].positions.data[k] \notin {Undefined, NaN})

====
